---- MODULE Spec2Model ----
(***************************************************************************)
(* Remote-control HTTP service of SimpleScreenRecorder                     *)
(* (src/src/common/HTTPServer.cpp) and the recorder controller it drives.  *)
(*                                                                         *)
(* Bytes and QStrings are sequences of atoms.  The characters the code     *)
(* inspects (space, CR, LF, colon, slash, NUL, tab, question mark) are     *)
(* atoms of their own; every other atom is a maximal run of ordinary       *)
(* characters (a word), so that equality of atom sequences is equality of  *)
(* the strings they spell.                                                 *)
(***************************************************************************)
EXTENDS Integers, Sequences, FiniteSets, TLC

VARIABLES host, m_page_record, listening, startReturned, alive, m_request_buffers, sockets, ctl

vars == <<host, m_page_record, listening, startReturned, alive, m_request_buffers, sockets, ctl>>

(***************************************************************************)
(* Bounds of the model.                                                    *)
(***************************************************************************)
\* sockets the listener hands out over one run
MaxSockets == 2

\* header lines of one request in the header-parsing model
MaxHeaderLines == 2

(***************************************************************************)
(* QByteArray / QString primitives.                                        *)
(***************************************************************************)
SP  == " "
CR  == "\r"
LF  == "\n"
TAB == "\t"
NUL == "NUL"
CRLF == <<CR, LF>>
CRLFCRLF == <<CR, LF, CR, LF>>

SetMin(S) == CHOOSE x \in S : \A y \in S : x <= y

\* QByteArray::indexOf / QString::indexOf: 0-based, -1 when absent
IndexOf(s, p) ==
    LET hits == {i \in 0..(Len(s) - Len(p)) : SubSeq(s, i + 1, i + Len(p)) = p}
    IN  IF hits = {} THEN -1 ELSE SetMin(hits)

\* QByteArray::contains
Contains(s, p) == IndexOf(s, p) >= 0

\* QString::mid(pos) / QByteArray::mid(pos)
Mid(s, pos) == SubSeq(s, pos + 1, Len(s))

\* QString::left(n)
Left(s, n) == SubSeq(s, 1, n)

\* QString::startsWith
StartsWith(s, p) == Len(p) <= Len(s) /\ SubSeq(s, 1, Len(p)) = p

\* QString::split(sep), KeepEmptyParts: never an empty list
RECURSIVE Split(_, _)
Split(s, sep) ==
    LET i == IndexOf(s, sep)
    IN  IF i < 0 THEN <<s>>
        ELSE <<Left(s, i)>> \o Split(Mid(s, i + Len(sep)), sep)

\* QString(const QByteArray&): the bytes up to the first NUL
ToQString(bytes) ==
    LET i == IndexOf(bytes, <<NUL>>)
    IN  IF i < 0 THEN bytes ELSE Left(bytes, i)

IsSpace(a) == a \in {SP, CR, LF, TAB}

\* QString::trimmed
RECURSIVE Trimmed(_)
Trimmed(s) ==
    IF s = <<>> THEN s
    ELSE IF IsSpace(Head(s)) THEN Trimmed(Tail(s))
    ELSE IF IsSpace(s[Len(s)]) THEN Trimmed(SubSeq(s, 1, Len(s) - 1))
    ELSE s

\* lower-casing of one word; words without upper-case letters are unchanged
LowerAtom(a) ==
    CASE a = "Host" -> "host"
      [] a = "HOST" -> "host"
      [] a = "Content-Type" -> "content-type"
      [] a = "Start" -> "start"
      [] a = "STATUS" -> "status"
      [] a = "GET" -> "get"
      [] a = "POST" -> "post"
      [] OTHER -> a

\* QString::toLower
ToLower(s) == [i \in 1..Len(s) |-> LowerAtom(s[i])]

Digits == <<"0", "1", "2", "3", "4", "5", "6", "7", "8", "9">>

\* QString::number(n) for n >= 0: the decimal digits, most significant first
RECURSIVE QStringNumber(_)
QStringNumber(n) ==
    IF n < 10 THEN <<Digits[n + 1]>>
    ELSE QStringNumber(n \div 10) \o <<Digits[(n % 10) + 1]>>

(***************************************************************************)
(* The recorder controller (PageRecord), from the controller contract of   *)
(* the specification: two flags, three read-only statistics and five       *)
(* commands.                                                               *)
(***************************************************************************)
IsRecording(c) == c.is_recording
IsPaused(c) == c.is_paused
GetCurrentFileName(c) == c.file_name
GetCurrentFileSize(c) == c.file_size
GetTotalTime(c) == c.total_time

\* start(): begin a new recording session
OnRecordStart(c) == [c EXCEPT !.is_recording = TRUE, !.is_paused = FALSE]

\* pause(): recording -> paused
OnRecordPause(c) ==
    IF c.is_recording /\ ~c.is_paused THEN [c EXCEPT !.is_paused = TRUE] ELSE c

\* toggle_pause(): if paused, resume; otherwise pause
OnRecordStartPause(c) ==
    IF c.is_paused THEN [c EXCEPT !.is_paused = FALSE] ELSE OnRecordPause(c)

\* save(confirm): finalize the output; with confirm the user is asked first
OnRecordSave(c, confirm) ==
    IF confirm THEN c ELSE [c EXCEPT !.is_recording = FALSE, !.is_paused = FALSE]

\* cancel(confirm): discard the output; with confirm the user is asked first
OnRecordCancel(c, confirm) ==
    IF confirm THEN c ELSE [c EXCEPT !.is_recording = FALSE, !.is_paused = FALSE]

\* the flag pairs the contract's commands move between: idle, recording, paused
ControllerFlags == {<<FALSE, FALSE>>, <<TRUE, FALSE>>, <<TRUE, TRUE>>}

\* the statistics a controller may report
ControllerStats ==
    { [file_name |-> <<>>, file_size |-> 0, total_time |-> 0],
      [file_name |-> <<"out.mkv">>, file_size |-> 1048576, total_time |-> 12345] }

ControllerStates ==
    { [is_recording |-> f[1], is_paused |-> f[2], file_name |-> st.file_name,
       file_size |-> st.file_size, total_time |-> st.total_time] :
      f \in ControllerFlags, st \in ControllerStats }

(***************************************************************************)
(* One entry of the log of controller invocations made by a handler: the   *)
(* member called, its argument, the flags at the moment of the call and,    *)
(* what it returned ("throws" when it threw, "-" for a command).           *)
(***************************************************************************)
Query(name, c, ret) ==
    [kind |-> "query", name |-> name, confirm |-> "-",
     rec |-> c.is_recording, paused |-> c.is_paused, ret |-> ret]

Command(name, confirm, c, h) ==
    [kind |-> "command", name |-> name, confirm |-> confirm,
     rec |-> c.is_recording, paused |-> c.is_paused,
     ret |-> IF h = "command" THEN "throws" ELSE "-"]

\* How the controller's members behave during one dispatch:
\*   "none"            every call returns
\*   "query"           the first query throws
\*   "command"         the command throws, leaving the controller as it was
HandlerFaults == {"none", "query", "command"}

\* the controller after a command that, under fault h, may have thrown
AfterCommand(c, c2, h) == IF h = "command" THEN c ELSE c2

CommandThrows(h) == h = "command"

(***************************************************************************)
(* JSON envelopes.                                                         *)
(***************************************************************************)
\* QJsonObject(): no keys
EmptyObject == <<>>

CreateSuccessResponse(data) == [success |-> TRUE, data |-> data]

CreateErrorResponse(message) == [success |-> FALSE, error |-> message]

\* the controller pointers a caller can hand to the constructor
PageRecord == "page_record"
NULL == "null"

\* a constructor that stores whatever pointer it is given
HTTPServer_AcceptsNull(page_record) ==
    [constructed |-> TRUE, m_page_record |-> page_record]

\* The constructor: it throws on a NULL controller, and then there is no
\* service object; otherwise it stores the pointer.
HTTPServer(page_record) ==
    IF page_record = NULL
    THEN [constructed |-> FALSE, m_page_record |-> NULL]
    ELSE [constructed |-> TRUE, m_page_record |-> page_record]

\* what a handler hands back: the envelope (when it returned), the controller
\* afterwards, the invocations it made, and whether it threw
Returned(json, c, calls) == [json |-> json, ctl |-> c, calls |-> calls, threw |-> FALSE]
Threw(c, calls) == [json |-> EmptyObject, ctl |-> c, calls |-> calls, threw |-> TRUE]

(***************************************************************************)
(* Endpoint handlers.  c is the controller when the handler is entered, h  *)
(* the way the controller's members behave during this dispatch.           *)
(***************************************************************************)
\* a status handler that reports the elapsed time in the place of the file size
HandleAPIStatus_SizeFromTime(c, h) ==
    IF h = "query" THEN Threw(c, <<Query("IsRecording", c, "throws")>>)
    ELSE Returned(
            CreateSuccessResponse(
                [is_recording |-> IsRecording(c),
                 is_paused |-> IsPaused(c),
                 file_name |-> GetCurrentFileName(c),
                 file_size |-> QStringNumber(GetTotalTime(c)),
                 total_time |-> GetTotalTime(c)]),
            c,
            <<Query("IsRecording", c, IsRecording(c)), Query("IsPaused", c, IsPaused(c)),
              Query("GetCurrentFileName", c, GetCurrentFileName(c)), Query("GetTotalTime", c, GetTotalTime(c)),
              Query("GetTotalTime", c, GetTotalTime(c))>>)

\* a status handler that discards the recording it reports on
HandleAPIStatus_Cancels(c, h) ==
    Returned(CreateSuccessResponse(EmptyObject), OnRecordCancel(c, FALSE),
             <<Command("OnRecordCancel", "false", c, h)>>)

HandleAPIStatus(c, h) ==
    IF m_page_record = NULL THEN Returned(CreateSuccessResponse(EmptyObject), c, <<>>)
    ELSE IF h = "query" THEN Threw(c, <<Query("IsRecording", c, "throws")>>)
    ELSE Returned(
            CreateSuccessResponse(
                [is_recording |-> IsRecording(c),
                 is_paused |-> IsPaused(c),
                 file_name |-> GetCurrentFileName(c),
                 file_size |-> QStringNumber(GetCurrentFileSize(c)),
                 total_time |-> GetTotalTime(c)]),
            c,
            <<Query("IsRecording", c, IsRecording(c)), Query("IsPaused", c, IsPaused(c)),
              Query("GetCurrentFileName", c, GetCurrentFileName(c)), Query("GetCurrentFileSize", c, GetCurrentFileSize(c)),
              Query("GetTotalTime", c, GetTotalTime(c))>>)

\* a start handler that does not ask whether a recording is running
HandleAPIStartRecording_AlwaysStarts(c, h) ==
    IF h = "query" THEN Threw(c, <<Query("IsPaused", c, "throws")>>)
    ELSE IF IsPaused(c) THEN
        LET calls == <<Query("IsPaused", c, IsPaused(c)), Command("OnRecordStartPause", "-", c, h)>>
            c2 == AfterCommand(c, OnRecordStartPause(c), h)
        IN  IF CommandThrows(h) THEN Threw(c2, calls)
            ELSE Returned(CreateSuccessResponse([action |-> "resumed"]), c2, calls)
    ELSE
        LET calls == <<Query("IsPaused", c, IsPaused(c)), Command("OnRecordStart", "-", c, h)>>
            c2 == AfterCommand(c, OnRecordStart(c), h)
        IN  IF CommandThrows(h) THEN Threw(c2, calls)
            ELSE Returned(CreateSuccessResponse([action |-> "started"]), c2, calls)

HandleAPIStartRecording(c, h) ==
    IF m_page_record = NULL
    THEN Returned(CreateErrorResponse("No access to recording page"), c, <<>>)
    ELSE IF h = "query" THEN Threw(c, <<Query("IsPaused", c, "throws")>>)
    ELSE IF IsPaused(c) THEN
        LET calls == <<Query("IsPaused", c, IsPaused(c)), Command("OnRecordStartPause", "-", c, h)>>
            c2 == AfterCommand(c, OnRecordStartPause(c), h)
        IN  IF CommandThrows(h) THEN Threw(c2, calls)
            ELSE Returned(CreateSuccessResponse([action |-> "resumed"]), c2, calls)
    ELSE IF ~IsRecording(c) THEN
        LET calls == <<Query("IsPaused", c, IsPaused(c)), Query("IsRecording", c, IsRecording(c)),
                       Command("OnRecordStart", "-", c, h)>>
            c2 == AfterCommand(c, OnRecordStart(c), h)
        IN  IF CommandThrows(h) THEN Threw(c2, calls)
            ELSE Returned(CreateSuccessResponse([action |-> "started"]), c2, calls)
    ELSE Returned(CreateErrorResponse("Already recording"), c,
                  <<Query("IsPaused", c, IsPaused(c)), Query("IsRecording", c, IsRecording(c))>>)

\* a pause handler that does not ask whether the recording is paused already
HandleAPIPauseRecording_NoPausedCheck(c, h) ==
    IF h = "query" THEN Threw(c, <<Query("IsRecording", c, "throws")>>)
    ELSE IF IsRecording(c) THEN
        LET calls == <<Query("IsRecording", c, IsRecording(c)), Command("OnRecordPause", "-", c, h)>>
            c2 == AfterCommand(c, OnRecordPause(c), h)
        IN  IF CommandThrows(h) THEN Threw(c2, calls)
            ELSE Returned(CreateSuccessResponse(EmptyObject), c2, calls)
    ELSE Returned(CreateErrorResponse("Not recording or already paused"), c,
                  <<Query("IsRecording", c, IsRecording(c))>>)

\* a pause handler that refuses with the message of save and cancel
HandleAPIPauseRecording_OtherMessage(c, h) ==
    IF h = "query" THEN Threw(c, <<Query("IsRecording", c, "throws")>>)
    ELSE IF IsRecording(c) /\ ~IsPaused(c) THEN
        LET calls == <<Query("IsRecording", c, IsRecording(c)), Query("IsPaused", c, IsPaused(c)),
                       Command("OnRecordPause", "-", c, h)>>
            c2 == AfterCommand(c, OnRecordPause(c), h)
        IN  IF CommandThrows(h) THEN Threw(c2, calls)
            ELSE Returned(CreateSuccessResponse(EmptyObject), c2, calls)
    ELSE Returned(CreateErrorResponse("Not recording"), c,
                  IF IsRecording(c)
                  THEN <<Query("IsRecording", c, IsRecording(c)), Query("IsPaused", c, IsPaused(c))>>
                  ELSE <<Query("IsRecording", c, IsRecording(c))>>)

HandleAPIPauseRecording(c, h) ==
    IF m_page_record = NULL
    THEN Returned(CreateErrorResponse("No access to recording page"), c, <<>>)
    ELSE IF h = "query" THEN Threw(c, <<Query("IsRecording", c, "throws")>>)
    ELSE IF IsRecording(c) /\ ~IsPaused(c) THEN
        LET calls == <<Query("IsRecording", c, IsRecording(c)), Query("IsPaused", c, IsPaused(c)),
                       Command("OnRecordPause", "-", c, h)>>
            c2 == AfterCommand(c, OnRecordPause(c), h)
        IN  IF CommandThrows(h) THEN Threw(c2, calls)
            ELSE Returned(CreateSuccessResponse(EmptyObject), c2, calls)
    ELSE Returned(CreateErrorResponse("Not recording or already paused"), c,
                  IF IsRecording(c)
                  THEN <<Query("IsRecording", c, IsRecording(c)), Query("IsPaused", c, IsPaused(c))>>
                  ELSE <<Query("IsRecording", c, IsRecording(c))>>)

HandleAPICancelRecording(c, h) ==
    IF m_page_record = NULL
    THEN Returned(CreateErrorResponse("No access to recording page"), c, <<>>)
    ELSE IF h = "query" THEN Threw(c, <<Query("IsRecording", c, "throws")>>)
    ELSE IF IsRecording(c) THEN
        LET calls == <<Query("IsRecording", c, IsRecording(c)), Command("OnRecordCancel", "false", c, h)>>
            c2 == AfterCommand(c, OnRecordCancel(c, FALSE), h)
        IN  IF CommandThrows(h) THEN Threw(c2, calls)
            ELSE Returned(CreateSuccessResponse(EmptyObject), c2, calls)
    ELSE Returned(CreateErrorResponse("Not recording"), c, <<Query("IsRecording", c, IsRecording(c))>>)

\* a save handler that refuses a paused recording
HandleAPISaveRecording_NotWhilePaused(c, h) ==
    IF h = "query" THEN Threw(c, <<Query("IsRecording", c, "throws")>>)
    ELSE IF IsRecording(c) /\ ~IsPaused(c) THEN
        LET calls == <<Query("IsRecording", c, IsRecording(c)), Query("IsPaused", c, IsPaused(c)),
                       Command("OnRecordSave", "false", c, h)>>
            c2 == AfterCommand(c, OnRecordSave(c, FALSE), h)
        IN  IF CommandThrows(h) THEN Threw(c2, calls)
            ELSE Returned(CreateSuccessResponse(EmptyObject), c2, calls)
    ELSE Returned(CreateErrorResponse("Not recording"), c, <<Query("IsRecording", c, IsRecording(c))>>)

HandleAPISaveRecording(c, h) ==
    IF m_page_record = NULL
    THEN Returned(CreateErrorResponse("No access to recording page"), c, <<>>)
    ELSE IF h = "query" THEN Threw(c, <<Query("IsRecording", c, "throws")>>)
    ELSE IF IsRecording(c) THEN
        LET calls == <<Query("IsRecording", c, IsRecording(c)), Command("OnRecordSave", "false", c, h)>>
            c2 == AfterCommand(c, OnRecordSave(c, FALSE), h)
        IN  IF CommandThrows(h) THEN Threw(c2, calls)
            ELSE Returned(CreateSuccessResponse(EmptyObject), c2, calls)
    ELSE Returned(CreateErrorResponse("Not recording"), c, <<Query("IsRecording", c, IsRecording(c))>>)

(***************************************************************************)
(* Response writer.  A socket is [isOpen, written]: whether its QIODevice  *)
(* is open and the responses written to it so far.                         *)
(***************************************************************************)
StatusText(status) ==
    CASE status = 200 -> "OK"
      [] status = 400 -> "Bad Request"
      [] status = 404 -> "Not Found"
      [] status = 500 -> "Internal Server Error"
      [] OTHER -> "Unknown"

\* the message SendResponse assembles
Response(status, content_type, content) ==
    [status |-> status, phrase |-> StatusText(status), content_type |-> content_type,
     connection |-> "close", allow_origin |-> "*", content |-> content]

\* QIODevice::write: nothing is written to a device that is not open
SocketWrite(sk, response) ==
    IF sk.isOpen THEN [sk EXCEPT !.written = Append(@, response)] ELSE sk

\* QAbstractSocket::close
\* a close that leaves the socket open (keep-alive)
SocketClose_KeepsOpen(sk) == sk

SocketClose(sk) == [sk EXCEPT !.isOpen = FALSE]

\* SendResponse once the message is assembled: write, flush, close
SendResponse(sk, status, content_type, content) ==
    SocketClose(SocketWrite(sk, Response(status, content_type, content)))

\* QJsonDocument(json).toJson(): the JSON text of the object
ToJson(json) == [json |-> json]

SendJsonResponse(sk, status, json) ==
    SendResponse(sk, status, "application/json", ToJson(json))

\* The n-th call of SendResponse during one dispatch; the first w calls throw
\* while the message is assembled (before anything is written).
TrySend(sk, n, w, status, content_type, content) ==
    IF n <= w THEN [sk |-> sk, threw |-> TRUE]
    ELSE [sk |-> SendResponse(sk, status, content_type, content), threw |-> FALSE]

TrySendJson(sk, n, w, status, json) ==
    IF n <= w THEN [sk |-> sk, threw |-> TRUE]
    ELSE [sk |-> SendJsonResponse(sk, status, json), threw |-> FALSE]

(***************************************************************************)
(* Request parser and dispatch.                                            *)
(***************************************************************************)
\* QMap::operator[] assignment: the last value stored under a key wins
MapPut(m, key, value) ==
    [k \in (DOMAIN m) \cup {key} |-> IF k = key THEN value ELSE m[k]]

\* a header loop in which the first value stored under a key stays
RECURSIVE ParseHeaders_FirstWins(_, _, _)
ParseHeaders_FirstWins(lines, i, headers) ==
    IF i > Len(lines) \/ lines[i] = <<>> THEN headers
    ELSE LET colonPos == IndexOf(lines[i], <<":">>)
             key == ToLower(Trimmed(Left(lines[i], colonPos)))
         IN  IF colonPos > 0 /\ key \notin DOMAIN headers
             THEN ParseHeaders_FirstWins(lines, i + 1,
                      MapPut(headers, key, Trimmed(Mid(lines[i], colonPos + 1))))
             ELSE ParseHeaders_FirstWins(lines, i + 1, headers)

\* the header loop: lines[i..], stopping at the first empty line
RECURSIVE ParseHeaders(_, _, _)
ParseHeaders(lines, i, headers) ==
    IF i > Len(lines) \/ lines[i] = <<>> THEN headers
    ELSE LET colonPos == IndexOf(lines[i], <<":">>)
         IN  IF colonPos > 0
             THEN ParseHeaders(lines, i + 1,
                      MapPut(headers,
                             ToLower(Trimmed(Left(lines[i], colonPos))),
                             Trimmed(Mid(lines[i], colonPos + 1))))
             ELSE ParseHeaders(lines, i + 1, headers)

\* the header map HandleRequest builds for a request: empty when it answers 400
\* before it reaches the header loop
HeadersOf(request) ==
    IF request = <<>> THEN <<>>
    ELSE LET lines == Split(ToQString(request), CRLF)
         IN  IF lines = <<>> \/ Len(Split(lines[1], <<SP>>)) < 3 THEN <<>>
             ELSE ParseHeaders(lines, 2, <<>>)

\* the bytes after the first CRLF CRLF
FindBody(request) ==
    LET headerEnd == IndexOf(request, CRLFCRLF)
    IN  IF headerEnd >= 0 /\ headerEnd + 4 < Len(request)
        THEN Mid(request, headerEnd + 4)
        ELSE <<>>

\* a normalization that strips every leading slash
RECURSIVE NormalizePath_StripsAll(_)
NormalizePath_StripsAll(path) ==
    IF StartsWith(path, <<"/">>) THEN NormalizePath_StripsAll(Mid(path, 1)) ELSE path

\* strip one leading slash
NormalizePath(path) == IF StartsWith(path, <<"/">>) THEN Mid(path, 1) ELSE path

IndexPage ==
    "SimpleScreenRecorder API Server\n\nAvailable endpoints:\n- /start - Start recording\n- /pause - Pause recording\n- /save - Save recording\n- /cancel - Cancel recording\n- /status - Get status information\n"

\* QJsonDocument::fromJson(body) followed by isObject()/object(): the object a
\* body spells, or the empty object for any other text
JsonRequest(body) ==
    IF body = <<>> THEN EmptyObject
    ELSE IF body = <<"{}">> THEN EmptyObject
    ELSE IF body = <<"{\"file\"", ":", "\"a\"}">> THEN [file |-> "a"]
    ELSE EmptyObject

\* a legacy API that also knows the short aliases
HandleAPI_ShortAliases(path, json, c, h) ==
    IF path = <<"status">> THEN HandleAPIStatus(c, h)
    ELSE IF path \in {<<"record", "/", "start">>, <<"start">>} THEN HandleAPIStartRecording(c, h)
    ELSE IF path \in {<<"record", "/", "pause">>, <<"pause">>} THEN HandleAPIPauseRecording(c, h)
    ELSE IF path \in {<<"record", "/", "cancel">>, <<"cancel">>} THEN HandleAPICancelRecording(c, h)
    ELSE IF path \in {<<"record", "/", "save">>, <<"save">>} THEN HandleAPISaveRecording(c, h)
    ELSE Returned(CreateErrorResponse("Unknown API endpoint"), c, <<>>)

\* a legacy API that refuses a request whose body carries members
HandleAPI_ReadsBody(path, json, c, h) ==
    IF json # EmptyObject THEN Returned(CreateErrorResponse("Unexpected parameters"), c, <<>>)
    ELSE IF path = <<"status">> THEN HandleAPIStatus(c, h)
    ELSE IF path = <<"record", "/", "start">> THEN HandleAPIStartRecording(c, h)
    ELSE IF path = <<"record", "/", "pause">> THEN HandleAPIPauseRecording(c, h)
    ELSE IF path = <<"record", "/", "cancel">> THEN HandleAPICancelRecording(c, h)
    ELSE IF path = <<"record", "/", "save">> THEN HandleAPISaveRecording(c, h)
    ELSE Returned(CreateErrorResponse("Unknown API endpoint"), c, <<>>)

\* the legacy JSON API: the handler chosen for the path after "api/"
HandleAPI(path, json, c, h) ==
    IF path = <<"status">> THEN HandleAPIStatus(c, h)
    ELSE IF path = <<"record", "/", "start">> THEN HandleAPIStartRecording(c, h)
    ELSE IF path = <<"record", "/", "pause">> THEN HandleAPIPauseRecording(c, h)
    ELSE IF path = <<"record", "/", "cancel">> THEN HandleAPICancelRecording(c, h)
    ELSE IF path = <<"record", "/", "save">> THEN HandleAPISaveRecording(c, h)
    ELSE Returned(CreateErrorResponse("Unknown API endpoint"), c, <<>>)

\* What the try block of HandleRequest is about to send: a plain-text message,
\* or the envelope a handler returned (or the handler threw).
TextReply(status, content, c) ==
    [kind |-> "text", status |-> status, content |-> content,
     h |-> Returned(EmptyObject, c, <<>>)]

JsonReply(hr) == [kind |-> "json", status |-> 200, content |-> "", h |-> hr]

\* the dispatch chain: the first branch whose path matches decides
RouteTable(path, body, c, h) ==
    IF path = <<"start">> \/ path = <<"record", "/", "start">>
    THEN JsonReply(HandleAPIStartRecording(c, h))
    ELSE IF path = <<"pause">> \/ path = <<"record", "/", "pause">>
    THEN JsonReply(HandleAPIPauseRecording(c, h))
    ELSE IF path = <<"save">> \/ path = <<"record", "/", "save">>
    THEN JsonReply(HandleAPISaveRecording(c, h))
    ELSE IF path = <<"cancel">> \/ path = <<"record", "/", "cancel">>
    THEN JsonReply(HandleAPICancelRecording(c, h))
    ELSE IF path = <<"status">> \/ path = <<"record", "/", "status">>
    THEN JsonReply(HandleAPIStatus(c, h))
    ELSE IF path = <<"api", "/", "status">>
            \/ path = <<"api", "/", "record", "/", "status">>
    THEN JsonReply(HandleAPIStatus(c, h))
    ELSE IF path = <<>> \/ path = <<"index.html">> \/ path = <<"index">>
    THEN TextReply(200, IndexPage, c)
    ELSE IF StartsWith(path, <<"api", "/">>)
    THEN JsonReply(HandleAPI(Mid(path, 2), JsonRequest(body), c, h))
    ELSE TextReply(404, "Not Found", c)

\* a dispatch that serves GET only
Route_GetOnly(method, path, headers, body, c, h) ==
    IF method = <<"GET">> THEN RouteTable(path, body, c, h)
    ELSE TextReply(404, "Not Found", c)

\* a dispatch that does not know the record/ aliases
Route_ShortOnly(method, path, headers, body, c, h) ==
    IF StartsWith(path, <<"record", "/">>) THEN TextReply(404, "Not Found", c)
    ELSE RouteTable(path, body, c, h)

\* what HandleRequest does with a parsed request: of the method, the path, the
\* headers and the body it has at hand, the chain reads the path and the body
Route(method, path, headers, body, c, h) == RouteTable(path, body, c, h)

\* a check that accepts a request line without a version
TooFewTokens_Two(requestLine) == Len(requestLine) < 2

\* the request line has fewer than three tokens
TooFewTokens(requestLine) == Len(requestLine) < 3

Dispatch(request, c, h) ==
    IF request = <<>> THEN TextReply(400, "Bad Request", c)
    ELSE LET lines == Split(ToQString(request), CRLF)
         IN
         IF lines = <<>> THEN TextReply(400, "Bad Request", c)
         ELSE LET requestLine == Split(lines[1], <<SP>>)
              IN
              IF TooFewTokens(requestLine) THEN TextReply(400, "Bad Request", c)
              ELSE Route(requestLine[1],
                         NormalizePath(requestLine[2]),
                         ParseHeaders(lines, 2, <<>>),
                         FindBody(request),
                         c, h)

\* How many of the SendResponse calls of one dispatch throw while the message is
\* assembled: the first w of them.  A dispatch makes at most three calls, each
\* one only after the one before it threw.
WriterFaults == 0..3

\* catch blocks that log the exception and send nothing
HandleRequestCatch_Silent(d, n1, first, w) ==
    [sk |-> first.sk, ctl |-> d.h.ctl, calls |-> d.h.calls,
     sends |-> n1, escaped |-> FALSE, parsed |-> TRUE,
     handlerThrew |-> d.h.threw]

\* the catch blocks of HandleRequest: first is the outcome of the try block
\* (d the dispatch it made, n1 the SendResponse calls so far)
HandleRequestCatch(d, n1, first, w) ==
    LET base == [sk |-> first.sk, ctl |-> d.h.ctl, calls |-> d.h.calls,
                 sends |-> n1, escaped |-> FALSE, parsed |-> TRUE,
                 handlerThrew |-> d.h.threw]
    IN  IF ~first.threw THEN base
        ELSE IF first.sk.isOpen
        THEN LET second == TrySend(first.sk, n1 + 1, w, 500, "text/plain",
                                   "Internal Server Error")
             IN  [base EXCEPT !.sk = second.sk, !.sends = n1 + 1,
                              !.escaped = second.threw]
        ELSE base

\* the try block of HandleRequest after parsing and routing: send what d says
HandleRequestTry(sk, d, w) ==
    IF d.h.threw THEN HandleRequestCatch(d, 0, [sk |-> sk, threw |-> TRUE], w)
    ELSE IF d.kind = "json"
    THEN HandleRequestCatch(d, 1, TrySendJson(sk, 1, w, d.status, d.h.json), w)
    ELSE HandleRequestCatch(d, 1, TrySend(sk, 1, w, d.status, "text/plain", d.content), w)

\* HandleRequest: sk is the socket, c the controller, h and w the faults of this
\* dispatch.  Yields the socket and controller afterwards, the controller
\* invocations made, the number of SendResponse calls made, and whether an
\* exception left the function.
HandleRequest(sk, request, c, h, w) ==
    IF ~sk.isOpen
    THEN [sk |-> sk, ctl |-> c, calls |-> <<>>, sends |-> 0, escaped |-> FALSE,
          parsed |-> FALSE, handlerThrew |-> FALSE]
    ELSE HandleRequestTry(sk, Dispatch(request, c, h), w)

(***************************************************************************)
(* State.                                                                  *)
(*   host               where main() of the host program stands, the      *)
(*                      options it was started with and what it obtained   *)
(*   listening          m_server->isListening()                            *)
(*   m_page_record      the controller pointer the constructor stored      *)
(*   startReturned      what the last call of Start returned               *)
(*   alive              the service object exists and its event loop runs: *)
(*                      FALSE when the constructor threw, and once an      *)
(*                      exception has left a slot                          *)
(*   m_request_buffers  the connection table: socket -> accumulated bytes  *)
(*   sockets            every socket the listener can hand out             *)
(*   ctl                the recorder controller                            *)
(***************************************************************************)
SocketIds == 1..MaxSockets

NoSocket ==
    [phase |-> "unused", isOpen |-> FALSE, inflight |-> <<>>, written |-> <<>>,
     calls |-> <<>>, parsed |-> 0, request |-> <<>>, h |-> "none", w |-> 0,
     faulted |-> FALSE, discPending |-> FALSE, form |-> [kind |-> "none"],
     headers |-> <<>>, escaped |-> FALSE]

\* nextPendingConnection(): an open socket.  script is what the connection will
\* meet: the segments its peer sends and the faults h and w of its dispatch;
\* form says what the peer meant to send
NewSocket(script) ==
    [NoSocket EXCEPT !.phase = "connected", !.isOpen = TRUE,
                     !.inflight = script.segments, !.h = script.h, !.w = script.w,
                     !.form = script.form]

RECURSIVE Concat(_)
Concat(chunks) == IF chunks = <<>> THEN <<>> ELSE Head(chunks) \o Concat(Tail(chunks))

\* m_request_buffers.remove(socket)
MapRemove(m, key) == [k \in (DOMAIN m) \ {key} |-> m[k]]

(***************************************************************************)
(* What peers send.                                                        *)
(***************************************************************************)
HTTP11 == <<"HTTP", "/", "1.1">>

\* a request as the bytes on the wire
Wire(method, target, version, headerLines, body) ==
    method \o <<SP>> \o target \o <<SP>> \o version \o CRLF
        \o Concat([i \in 1..Len(headerLines) |-> headerLines[i] \o CRLF])
        \o CRLF \o body

Get(target) == Wire(<<"GET">>, target, HTTP11, <<>>, <<>>)

\* a connection on which nothing throws
Raw == [kind |-> "raw"]

Peer(segments) == [segments |-> segments, h |-> "none", w |-> 0, form |-> Raw]

\* The connections of the service model.  A request whose terminator arrives in
\* pieces, a malformed one, one that never ends, pipelined requests, one for a
\* path that matches nothing, and three
\* connections on which something throws: the controller's command, the first two
\* calls of SendResponse, all three calls.
Scripts ==
    { Peer(<<<<"POST", SP, "/", "start", SP>> \o HTTP11 \o <<CR>>, <<LF, CR>>, <<LF>>>>),
      Peer(<<<<"GARBAGE">> \o CRLFCRLF>>),
      Peer(<<<<"GET", SP, "/", "status", SP>> \o HTTP11 \o CRLF>>),
      Peer(<<Get(<<"/", "pause">>) \o Get(<<"/", "save">>), Get(<<"/", "status">>)>>),
      Peer(<<Get(<<"/", "Status">>)>>),
      [segments |-> <<Get(<<"/", "save">>)>>, h |-> "command", w |-> 0, form |-> Raw],
      [segments |-> <<Get(<<"/", "nope">>)>>, h |-> "none", w |-> 2, form |-> Raw],
      [segments |-> <<Get(<<"/">>)>>, h |-> "none", w |-> 3, form |-> Raw] }

Methods == {<<"GET">>, <<"POST">>}

Versions == {HTTP11, <<"X">>}

HeaderBlocks ==
    { <<>>,
      << <<"Host", ":", SP, "a">> >>,
      << <<"Content-Type", ":", SP, "application", "/", "json">>,
         <<"HOST", ":", "b", ":", "8080", SP>> >> }

Bodies == { <<>>, <<"{}">>, <<"{\"file\"", ":", "\"a\"}">>, <<"junk">> }

\* the dispatch-set paths, each with and without a leading slash elsewhere
DispatchPaths ==
    { <<>>, <<"index">>, <<"index.html">>,
      <<"start">>, <<"record", "/", "start">>,
      <<"pause">>, <<"record", "/", "pause">>,
      <<"save">>, <<"record", "/", "save">>,
      <<"cancel">>, <<"record", "/", "cancel">>,
      <<"status">>, <<"record", "/", "status">>,
      <<"api", "/", "status">>, <<"api", "/", "record", "/", "status">> }

LegacyPaths ==
    { <<"api", "/", "record", "/", "start">>, <<"api", "/", "record", "/", "pause">>,
      <<"api", "/", "record", "/", "save">>, <<"api", "/", "record", "/", "cancel">>,
      <<"api", "/">>, <<"api", "/", "start">>, <<"api", "/", "pause">>,
      <<"api", "/", "save">>, <<"api", "/", "cancel">>, <<"api", "/", "nope">>,
      <<"api", "/", "record", "/", "start", "/">>, <<"api", "/", "Status">>,
      <<"api", "/", "record">>, <<"api", "/", "/", "status">> }

OtherPaths ==
    { <<"Start">>, <<"STATUS">>, <<"start", "/">>, <<"status", "?", "x=1">>,
      <<"/", "start">>, <<"nope">>, <<"api">>, <<"record">>, <<"record", "/">>,
      <<"Api", "/", "status">>, <<"record", "/", "Start">>, <<"index.htm">>,
      <<"start", "?">>, <<"apix", "/", "status">> }

Paths == DispatchPaths \cup LegacyPaths \cup OtherPaths

\* request targets: every path behind a slash, and a few without one
Targets == { <<"/">> \o p : p \in Paths } \cup { <<"start">>, <<"status">>, <<"api", "/", "nope">> }

\* what a peer means to send: a method, a target, a version, header lines, a body
Forms ==
    { [kind |-> "request", method |-> m, target |-> t, version |-> v,
       headers |-> hs, body |-> b] :
      m \in Methods, t \in Targets, v \in Versions, hs \in HeaderBlocks, b \in Bodies }

WireOf(form) == Wire(form.method, form.target, form.version, form.headers, form.body)

\* buffers that hold CRLF CRLF and whose first line has fewer than three tokens
MalformedRequests ==
    { <<"GARBAGE">> \o CRLFCRLF,
      CRLFCRLF,
      <<"GET", SP, "/", "start">> \o CRLFCRLF,
      <<"GET">> \o CRLF \o <<"Host", ":", SP, "a">> \o CRLFCRLF,
      <<"GET", "/", "start", "HTTP", "/", "1.1">> \o CRLFCRLF \o <<"{}">>,
      <<"GET", SP, "/", "st", NUL, "art", SP>> \o HTTP11 \o CRLFCRLF,
      <<"GET", TAB, "/", "status", TAB>> \o HTTP11 \o CRLFCRLF,
      <<NUL>> \o Get(<<"/", "save">>) }

\* requests whose request line has three tokens or more but is unusual
OddRequests ==
    { <<"GET", SP, "/", "start", SP>> \o CRLFCRLF,
      <<SP, "/", "status", SP>> \o HTTP11 \o CRLFCRLF,
      <<"GET", SP, SP, "/", "start", SP>> \o HTTP11 \o CRLFCRLF,
      <<"GET", SP, "/", "save", SP>> \o HTTP11 \o <<SP, "extra">> \o CRLFCRLF,
      <<"GET", SP, "/", "pause", SP>> \o HTTP11 \o <<NUL>> \o CRLFCRLF }

RawRequests == MalformedRequests \cup OddRequests

(***************************************************************************)
(* Operations of the service.                                              *)
(***************************************************************************)
\* a host that has set the service up and runs its event loop
HostInLoop ==
    [pc |-> "exec", exit_code |-> "none", start_recording |-> FALSE,
     has_output |-> TRUE, backend |-> TRUE, pagerecord |-> PageRecord,
     started |-> "none"]

\* The state after the constructor has run on the pointer it was given: not
\* bound, empty table.
Init ==
    /\ host = HostInLoop
    /\ \E page_record \in {NULL, PageRecord} :
          \E service \in {HTTPServer(page_record)} :
              /\ alive = service.constructed
              /\ m_page_record = service.m_page_record
    /\ listening = FALSE
    /\ startReturned = "none"
    /\ m_request_buffers = <<>>
    /\ sockets = [s \in SocketIds |-> NoSocket]
    /\ ctl \in {c \in ControllerStates : ~c.is_paused /\ c.file_size = 0}

\* a listen() that reports a failed bind but leaves the server listening
Listen_ListensDespiteFailure(isListening, bound) ==
    IF isListening THEN [isListening |-> TRUE, ret |-> "false"]
    ELSE IF bound THEN [isListening |-> TRUE, ret |-> "true"]
    ELSE [isListening |-> TRUE, ret |-> "false"]

\* m_server->listen(QHostAddress::Any, port): refused when the server listens
\* already; otherwise bound says whether the port can be bound
Listen(isListening, bound) ==
    IF isListening THEN [isListening |-> TRUE, ret |-> "false"]
    ELSE IF bound THEN [isListening |-> TRUE, ret |-> "true"]
    ELSE [isListening |-> FALSE, ret |-> "false"]

\* Start(port): returns what listen() returned
Start(bound) ==
    /\ alive
    /\ \E r \in {Listen(listening, bound)} :
          /\ listening' = r.isListening
          /\ startReturned' = r.ret
    /\ UNCHANGED <<host, m_page_record, alive, m_request_buffers, sockets, ctl>>

Stop ==
    /\ alive
    /\ listening' = IF listening THEN FALSE ELSE listening
    /\ UNCHANGED <<host, m_page_record, startReturned, alive, m_request_buffers, sockets, ctl>>

OnNewConnection(s, script) ==
    /\ alive
    /\ listening
    /\ sockets[s].phase = "unused"
    /\ \A t \in SocketIds : t < s => sockets[t].phase # "unused"
    /\ sockets' = [sockets EXCEPT ![s] = NewSocket(script)]
    /\ m_request_buffers' = MapPut(m_request_buffers, s, <<>>)
    /\ UNCHANGED <<host, m_page_record, listening, startReturned, alive, ctl>>

\* a disconnect that empties the whole table
TableAfterDisconnect_DropsAll(table, s) == <<>>

\* a disconnect that leaves the entry in the table
TableAfterDisconnect_KeepsEntry(table, s) == table

\* the body of OnDisconnected, as a change of the table and of the socket
TableAfterDisconnect(table, s) ==
    IF s \in DOMAIN table THEN MapRemove(table, s) ELSE table

SocketAfterDisconnect(sock) ==
    [sock EXCEPT !.phase = "disconnected", !.discPending = FALSE, !.inflight = <<>>]

\* the disconnected() signal of socket s: its peer hung up, or the service's own
\* close() completed
OnDisconnected(s) ==
    /\ alive
    /\ sockets[s].phase = "connected"
    /\ m_request_buffers' = TableAfterDisconnect(m_request_buffers, s)
    /\ sockets' = [sockets EXCEPT ![s] = SocketAfterDisconnect(@)]
    /\ UNCHANGED <<host, m_page_record, listening, startReturned, alive, ctl>>

\* the number of SendResponse calls among the first n that threw
Thrown(n, w) == IF n <= w THEN n ELSE w

\* a check that takes the first line break for the end of the request
RequestComplete_AnyLineBreak(buffer) == Contains(buffer, CRLF)

\* buffer.contains("\r\n\r\n"): the request head is complete
RequestComplete(buffer) == Contains(buffer, CRLFCRLF)

\* the rest of OnReadyRead once HandleRequest has come back with r
OnReadyReadServed(s, buffer, rest, r, sync) ==
    LET sock == sockets[s]
        w == sock.w
        retry == r.escaped /\ r.sk.isOpen
        sends == IF retry THEN r.sends + 1 ELSE r.sends
        leaves == retry /\ sends <= w
        sk == IF retry /\ ~leaves
              THEN SendResponse(r.sk, 500, "text/plain", "Internal Server Error")
              ELSE r.sk
        closedNow == sock.isOpen /\ ~sk.isOpen
        faulted == r.handlerThrew \/ Thrown(sends, w) > 0
        served == [sock EXCEPT
                    !.isOpen = sk.isOpen,
                    !.written = sk.written,
                    !.inflight = rest,
                    !.calls = @ \o r.calls,
                    !.parsed = IF r.parsed THEN @ + 1 ELSE @,
                    !.request = IF r.parsed THEN buffer ELSE @,
                    !.headers = IF r.parsed THEN HeadersOf(buffer) ELSE @,
                    !.faulted = faulted,
                    !.escaped = r.escaped,
                    !.discPending = closedNow /\ ~sync]
        filled == [m_request_buffers EXCEPT ![s] = buffer]
    IN
    /\ ctl' = r.ctl
    /\ alive' = ~leaves
    /\ IF closedNow /\ sync
       THEN /\ sockets' = [sockets EXCEPT ![s] = SocketAfterDisconnect(served)]
            /\ m_request_buffers' = TableAfterDisconnect(filled, s)
       ELSE /\ sockets' = [sockets EXCEPT ![s] = served]
            /\ m_request_buffers' =
                   IF r.escaped THEN filled ELSE [filled EXCEPT ![s] = <<>>]
    /\ UNCHANGED <<host, m_page_record, listening, startReturned>>

\* The readyRead() signal of socket s: k segments have arrived.  sync says
\* whether close() completes the disconnect at once (disconnected() is emitted
\* inside close()) or leaves it pending.
OnReadyRead(s, k, sync) ==
    /\ alive
    /\ sockets[s].phase = "connected"
    /\ k \in 1..Len(sockets[s].inflight)
    /\ LET sock == sockets[s]
           data == IF sock.isOpen THEN Concat(SubSeq(sock.inflight, 1, k)) ELSE <<>>
           rest == SubSeq(sock.inflight, k + 1, Len(sock.inflight))
       IN
       IF s \notin DOMAIN m_request_buffers
       THEN UNCHANGED vars
       ELSE IF data = <<>>
       THEN /\ sockets' = [sockets EXCEPT ![s].inflight = rest]
            /\ UNCHANGED <<host, m_page_record, listening, startReturned, alive, m_request_buffers, ctl>>
       ELSE \E buffer \in {m_request_buffers[s] \o data} :
            IF ~RequestComplete(buffer)
            THEN /\ m_request_buffers' = [m_request_buffers EXCEPT ![s] = buffer]
                 /\ sockets' = [sockets EXCEPT ![s].inflight = rest]
                 /\ UNCHANGED <<host, m_page_record, listening, startReturned, alive, ctl>>
            ELSE \E r \in {HandleRequest([isOpen |-> sock.isOpen, written |-> sock.written],
                                         buffer, ctl, sock.h, sock.w)} :
                    OnReadyReadServed(s, buffer, rest, r, sync)

Next ==
    \/ \E bound \in BOOLEAN : Start(bound)
    \/ Stop
    \/ \E s \in SocketIds, script \in Scripts : OnNewConnection(s, script)
    \/ \E s \in SocketIds, sync \in BOOLEAN :
          \E k \in 1..Len(sockets[s].inflight) : OnReadyRead(s, k, sync)
    \/ \E s \in SocketIds : OnDisconnected(s)

Spec == Init /\ [][Next]_vars

\* The event loop delivers a disconnected() signal that close() left pending:
\* a queued signal is delivered in a later iteration of the loop.
PendingDisconnect(s) == sockets[s].discPending /\ OnDisconnected(s)

SpecFair == Spec /\ \A s \in SocketIds : WF_vars(PendingDisconnect(s))

(***************************************************************************)
(* One connection serving one request: the request and the controller      *)
(* range over every combination, the service is listening and the          *)
(* connection has just been accepted.                                      *)
(***************************************************************************)
DispatchScripts ==
    { [segments |-> <<WireOf(f)>>, h |-> h, w |-> w, form |-> f] :
      f \in Forms, h \in HandlerFaults, w \in WriterFaults }
    \cup
    { [segments |-> <<r>>, h |-> h, w |-> w, form |-> Raw] :
      r \in RawRequests, h \in HandlerFaults, w \in WriterFaults }

InitDispatch ==
    /\ host = HostInLoop
    /\ m_page_record = PageRecord
    /\ listening = TRUE
    /\ startReturned = "true"
    /\ alive = TRUE
    /\ ctl \in ControllerStates
    /\ \E script \in DispatchScripts :
          sockets = [s \in SocketIds |-> IF s = 1 THEN NewSocket(script) ELSE NoSocket]
    /\ m_request_buffers = MapPut(<<>>, 1, <<>>)

NextDispatch ==
    \/ \E sync \in BOOLEAN : OnReadyRead(1, 1, sync)
    \/ OnDisconnected(1)

SpecDispatch == InitDispatch /\ [][NextDispatch]_vars

(***************************************************************************)
(* One connection serving one request whose header block ranges over every *)
(* sequence of at most MaxHeaderLines of the header lines below.           *)
(***************************************************************************)
HeaderLines ==
    { <<"Host", ":", SP, "a">>,
      <<"host", ":", "b">>,
      <<"HOST", SP, ":", SP, "c", SP>>,
      <<TAB, "Host", ":", "d", ":", "8080">>,
      <<"Content-Type", ":", SP, "http", ":", "/", "/", "h", ":", "80">>,
      <<"NoColon">>,
      <<":", "v">>,
      <<"Host", ":">> }

HeaderLineBlocks ==
    UNION { [1..n -> HeaderLines] : n \in 0..MaxHeaderLines }

HeaderScripts ==
    { [segments |-> <<WireOf(f)>>, h |-> "none", w |-> 0, form |-> f] :
      f \in { [kind |-> "request", method |-> <<"GET">>, target |-> <<"/", "status">>,
               version |-> HTTP11, headers |-> hs, body |-> <<>>] :
             hs \in HeaderLineBlocks } }

InitHeaders ==
    /\ host = HostInLoop
    /\ m_page_record = PageRecord
    /\ listening = TRUE
    /\ startReturned = "true"
    /\ alive = TRUE
    /\ ctl \in {c \in ControllerStates : ~c.is_recording /\ c.file_size = 0}
    /\ \E script \in HeaderScripts :
          sockets = [s \in SocketIds |-> IF s = 1 THEN NewSocket(script) ELSE NoSocket]
    /\ m_request_buffers = MapPut(<<>>, 1, <<>>)

SpecHeaders == InitHeaders /\ [][NextDispatch]_vars

(***************************************************************************)
(* One connection serving one request for a path under api/, whose body    *)
(* ranges over: none, the empty object, an object with a member, an array, *)
(* text that is not JSON, and bytes with a NUL and a second CRLF CRLF.     *)
(***************************************************************************)
LegacyBodies ==
    { <<>>, <<"{}">>, <<"{\"file\"", ":", "\"a\"}">>, <<"[1]">>, <<"junk">>,
      <<NUL, "{">> \o CRLFCRLF \o <<"}">> }

ApiPaths == { p \in Paths : StartsWith(p, <<"api", "/">>) }

BodyScripts ==
    { [segments |-> <<WireOf(f)>>, h |-> h, w |-> w, form |-> f] :
      f \in { [kind |-> "request", method |-> <<"POST">>, target |-> <<"/">> \o p,
               version |-> HTTP11, headers |-> <<>>, body |-> b] :
             p \in ApiPaths, b \in LegacyBodies },
      h \in HandlerFaults, w \in WriterFaults }

InitBodies ==
    /\ host = HostInLoop
    /\ m_page_record = PageRecord
    /\ listening = TRUE
    /\ startReturned = "true"
    /\ alive = TRUE
    /\ ctl \in ControllerStates
    /\ \E script \in BodyScripts :
          sockets = [s \in SocketIds |-> IF s = 1 THEN NewSocket(script) ELSE NoSocket]
    /\ m_request_buffers = MapPut(<<>>, 1, <<>>)

SpecBodies == InitBodies /\ [][NextDispatch]_vars

(***************************************************************************)
(* A listening service that accepts one connection and serves it: a GET    *)
(* for any target, or any raw request, under any faults.                   *)
(***************************************************************************)
RouteScripts ==
    { [segments |-> <<WireOf(f)>>, h |-> h, w |-> w, form |-> f] :
      f \in { [kind |-> "request", method |-> <<"GET">>, target |-> t,
               version |-> HTTP11, headers |-> <<>>, body |-> <<>>] : t \in Targets },
      h \in HandlerFaults, w \in WriterFaults }
    \cup
    { [segments |-> <<r>>, h |-> h, w |-> w, form |-> Raw] :
      r \in RawRequests, h \in HandlerFaults, w \in WriterFaults }

InitRoutes ==
    /\ host = HostInLoop
    /\ m_page_record = PageRecord
    /\ listening = TRUE
    /\ startReturned = "true"
    /\ alive = TRUE
    /\ ctl \in ControllerStates
    /\ sockets = [s \in SocketIds |-> NoSocket]
    /\ m_request_buffers = <<>>

NextRoutes ==
    \/ \E script \in RouteScripts : OnNewConnection(1, script)
    \/ \E sync \in BOOLEAN : OnReadyRead(1, 1, sync)
    \/ OnDisconnected(1)

SpecRoutes == InitRoutes /\ [][NextRoutes]_vars

(***************************************************************************)
(* The host program: main() of Main.cpp from the point where the options   *)
(* are parsed, through the backend branch that obtains the pages, starts   *)
(* the recording when asked to, constructs and starts the service and      *)
(* enters the event loop.                                                  *)
(*   start_recording  CommandLineOptions::GetStartRecording()              *)
(*   has_output       !CommandLineOptions::GetOutputFile().isEmpty()       *)
(*   backend          CommandLineOptions::GetBackend()                     *)
(*   pagerecord       what mainwindow.GetPageRecord() returned             *)
(*   started          what pagerecord->TryStartPage() did                  *)
(***************************************************************************)
HostOptions ==
    { [pc |-> "main", exit_code |-> "none", start_recording |-> sr,
       has_output |-> out, backend |-> b, pagerecord |-> "none", started |-> "none"] :
      sr \in BOOLEAN, out \in BOOLEAN, b \in BOOLEAN }

\* return 1
Exit1(h) == [h EXCEPT !.pc = "exit", !.exit_code = "1"]

\* MainWindow mainwindow(true) and the three page getters: the constructor
\* throws, or one of the pages is NULL, or all three are there
PageOutcomes == {"ok", "throws", "input_null", "output_null", "record_null"}

\* the connections of the host model
MainScripts ==
    { Peer(<<Get(<<"/", "status">>)>>), Peer(<<Get(<<"/", "start">>)>>) }

InitMain ==
    /\ host \in HostOptions
    /\ m_page_record = NULL
    /\ listening = FALSE
    /\ startReturned = "none"
    /\ alive = FALSE
    /\ m_request_buffers = <<>>
    /\ sockets = [s \in SocketIds |-> NoSocket]
    /\ ctl \in {c \in ControllerStates : ~c.is_recording /\ c.file_size = 0}

\* if(GetStartRecording() || !GetOutputFile().isEmpty()): the backend branch;
\* otherwise the GUI branch or the end of main, where no service is created
MainEnter ==
    /\ host.pc = "main"
    /\ host' = [host EXCEPT !.pc = IF host.start_recording \/ host.has_output
                                    THEN "window" ELSE "other"]
    /\ UNCHANGED <<m_page_record, listening, startReturned, alive, m_request_buffers,
                   sockets, ctl>>

MainGetPages(pages) ==
    /\ host.pc = "window"
    /\ host' = IF pages = "ok"
               THEN [host EXCEPT !.pc = "autostart", !.pagerecord = PageRecord]
               ELSE IF pages = "record_null"
               THEN Exit1([host EXCEPT !.pagerecord = NULL])
               ELSE Exit1(host)
    /\ UNCHANGED <<m_page_record, listening, startReturned, alive, m_request_buffers,
                   sockets, ctl>>

\* an automatic start whose failure is only logged
AfterAutoStart_IgnoresFailure(requested, outcome) == "server"

\* where main goes after the automatic start: on when none was requested or
\* TryStartPage() returned true, to return 1 when it returned false or threw
AfterAutoStart(requested, outcome) ==
    IF ~requested THEN "server"
    ELSE IF outcome = "true" THEN "server"
    ELSE "exit"

\* if(GetStartRecording()) { if(!pagerecord->TryStartPage()) return 1; }
MainAutoStart(outcome) ==
    /\ host.pc = "autostart"
    /\ ~host.start_recording => outcome = "true"
    /\ \E pc \in {AfterAutoStart(host.start_recording, outcome)} :
          host' = [host EXCEPT !.pc = pc,
                               !.exit_code = IF pc = "exit" THEN "1" ELSE @,
                               !.started = IF host.start_recording THEN outcome ELSE @]
    /\ ctl' = IF host.start_recording /\ outcome = "true" THEN OnRecordStart(ctl) ELSE ctl
    /\ UNCHANGED <<m_page_record, listening, startReturned, alive, m_request_buffers,
                   sockets>>

\* if(GetBackend()) { HTTPServer server(pagerecord); ... }; without the
\* option main goes to its event loop with no service
MainCreateServer ==
    /\ host.pc = "server"
    /\ IF host.backend
       THEN \E service \in {HTTPServer(host.pagerecord)} :
               /\ alive' = service.constructed
               /\ m_page_record' = service.m_page_record
               /\ host' = IF service.constructed THEN [host EXCEPT !.pc = "start"]
                          ELSE Exit1(host)
       ELSE /\ host' = [host EXCEPT !.pc = "exec"]
            /\ UNCHANGED <<m_page_record, alive>>
    /\ UNCHANGED <<listening, startReturned, m_request_buffers, sockets, ctl>>

\* server.Start(GetHttpPort()); the value it returns is dropped
MainStart(bound) ==
    /\ host.pc = "start"
    /\ startReturned = "none"
    /\ Start(bound)

\* return application.exec()
MainExec ==
    /\ host.pc = "start"
    /\ startReturned # "none"
    /\ host' = [host EXCEPT !.pc = "exec"]
    /\ UNCHANGED <<m_page_record, listening, startReturned, alive, m_request_buffers,
                   sockets, ctl>>

\* the event loop delivers the service's signals
MainLoop ==
    /\ host.pc = "exec"
    /\ \/ \E s \in SocketIds, script \in MainScripts : OnNewConnection(s, script)
       \/ \E s \in SocketIds, sync \in BOOLEAN : OnReadyRead(s, 1, sync)
       \/ \E s \in SocketIds : OnDisconnected(s)

NextMain ==
    \/ MainEnter
    \/ \E pages \in PageOutcomes : MainGetPages(pages)
    \/ \E outcome \in {"true", "false", "throws"} : MainAutoStart(outcome)
    \/ MainCreateServer
    \/ \E bound \in BOOLEAN : MainStart(bound)
    \/ MainExec
    \/ MainLoop

SpecMain == InitMain /\ [][NextMain]_vars

(***************************************************************************)
(* Vocabulary of the properties.                                           *)
(***************************************************************************)
\* the normalized path of a target: one leading slash stripped
PathOf(target) ==
    IF target # <<>> /\ Head(target) = "/" THEN Tail(target) ELSE target

\* the commands among the invocations of a log, by name
RECURSIVE CommandNames(_)
CommandNames(calls) ==
    IF calls = <<>> THEN <<>>
    ELSE IF Head(calls).kind = "command"
    THEN <<Head(calls).name>> \o CommandNames(Tail(calls))
    ELSE CommandNames(Tail(calls))

\* socket s is served in this step: its request reaches the parser
Dispatches(s) == sockets[s].parsed = 0 /\ sockets'[s].parsed = 1

\* socket s sends a well-formed request for one of the paths, and nothing throws
\* while it is served
Asks(sock, paths) ==
    /\ sock.parsed = 1
    /\ sock.form.kind = "request"
    /\ PathOf(sock.form.target) \in paths
    /\ ~sock.faulted

\* the one response written to the socket is a 200 carrying this envelope
RepliesJson(sock, envelope) ==
    sock.written = <<Response(200, "application/json", ToJson(envelope))>>

StartPaths ==
    { <<"start">>, <<"record", "/", "start">>, <<"api", "/", "record", "/", "start">> }
PausePaths ==
    { <<"pause">>, <<"record", "/", "pause">>, <<"api", "/", "record", "/", "pause">> }
SavePaths ==
    { <<"save">>, <<"record", "/", "save">>, <<"api", "/", "record", "/", "save">> }
CancelPaths ==
    { <<"cancel">>, <<"record", "/", "cancel">>, <<"api", "/", "record", "/", "cancel">> }
StatusPaths ==
    { <<"status">>, <<"record", "/", "status">>, <<"api", "/", "status">>,
      <<"api", "/", "record", "/", "status">> }

Started == CreateSuccessResponse([action |-> "started"])
Resumed == CreateSuccessResponse([action |-> "resumed"])

(***************************************************************************)
(* C1.  Every request that reaches the parser causes exactly one response  *)
(* to be written to its socket, before the socket is closed: never none,   *)
(* never two, whatever throws on the way.                                  *)
(* Refuted: when every call of SendResponse made for the request throws,   *)
(* nothing is written and the exception leaves OnReadyRead.                *)
(***************************************************************************)
C1_ExactlyOneResponse ==
    \A s \in SocketIds : Len(sockets[s].written) = sockets[s].parsed

(***************************************************************************)
(* C2.  A StartOrResume request answers "started" iff the controller was   *)
(* neither recording nor paused, and then start() is invoked exactly once; *)
(* "resumed" iff it was paused, and then toggle_pause() is invoked exactly *)
(* once; when recording and not paused it answers the error "Already       *)
(* recording" and invokes no command.                                      *)
(***************************************************************************)
C2_Body ==
    (Dispatches(1) /\ Asks(sockets'[1], StartPaths)) =>
        LET sock == sockets'[1]
            cmds == CommandNames(sock.calls)
        IN  /\ RepliesJson(sock, Started) <=> (~ctl.is_recording /\ ~ctl.is_paused)
            /\ RepliesJson(sock, Started) => cmds = <<"OnRecordStart">>
            /\ RepliesJson(sock, Resumed) <=> ctl.is_paused
            /\ RepliesJson(sock, Resumed) => cmds = <<"OnRecordStartPause">>
            /\ (ctl.is_recording /\ ~ctl.is_paused) =>
                  /\ RepliesJson(sock, CreateErrorResponse("Already recording"))
                  /\ cmds = <<>>
            /\ \/ RepliesJson(sock, Started)
               \/ RepliesJson(sock, Resumed)
               \/ RepliesJson(sock, CreateErrorResponse("Already recording"))

C2_StartOrResume == [][C2_Body]_vars

\* a paused recording was resumed through a start route
C2_Witness ==
    /\ Asks(sockets[1], StartPaths)
    /\ RepliesJson(sockets[1], Resumed)
    /\ CommandNames(sockets[1].calls) = <<"OnRecordStartPause">>

(***************************************************************************)
(* C3.  Every controller command is invoked only when its precondition     *)
(* holds at the moment of the call: start() when neither recording nor     *)
(* paused, toggle_pause() when paused, pause() when recording and not      *)
(* paused, save and cancel when recording and with confirm = false.        *)
(***************************************************************************)
PreconditionHolds(e) ==
    CASE e.name = "OnRecordStart" -> ~e.rec /\ ~e.paused
      [] e.name = "OnRecordStartPause" -> e.paused
      [] e.name = "OnRecordPause" -> e.rec /\ ~e.paused
      [] e.name = "OnRecordSave" -> e.rec /\ e.confirm = "false"
      [] e.name = "OnRecordCancel" -> e.rec /\ e.confirm = "false"
      [] OTHER -> FALSE

C3_CommandPreconditions ==
    \A s \in SocketIds : \A i \in 1..Len(sockets[s].calls) :
        sockets[s].calls[i].kind = "command" => PreconditionHolds(sockets[s].calls[i])

\* a paused recording was saved
C3_Witness ==
    \E i \in 1..Len(sockets[1].calls) :
        /\ sockets[1].calls[i].name = "OnRecordSave"
        /\ sockets[1].calls[i].confirm = "false"
        /\ sockets[1].calls[i].ret = "-"
        /\ sockets[1].calls[i].paused

(***************************************************************************)
(* C4.  A Pause request succeeds and invokes pause() exactly once iff the  *)
(* controller is recording and not paused; otherwise it answers 200 with   *)
(* the error "Not recording or already paused", invokes no command and     *)
(* leaves the controller as it was.                                        *)
(***************************************************************************)
C4_Body ==
    (Dispatches(1) /\ Asks(sockets'[1], PausePaths)) =>
        LET sock == sockets'[1]
            cmds == CommandNames(sock.calls)
        IN  IF ctl.is_recording /\ ~ctl.is_paused
            THEN /\ RepliesJson(sock, CreateSuccessResponse(EmptyObject))
                 /\ cmds = <<"OnRecordPause">>
            ELSE /\ RepliesJson(sock,
                        CreateErrorResponse("Not recording or already paused"))
                 /\ cmds = <<>>
                 /\ ctl' = ctl

C4_Pause == [][C4_Body]_vars

\* a pause was refused because the recording was paused already
C4_Witness ==
    /\ Asks(sockets[1], PausePaths)
    /\ RepliesJson(sockets[1], CreateErrorResponse("Not recording or already paused"))
    /\ ctl.is_paused

(***************************************************************************)
(* C5.  A Save request and a Cancel request succeed iff the controller is  *)
(* recording, paused or not, and then invoke save(false), respectively     *)
(* cancel(false), exactly once; otherwise they answer 200 with the error   *)
(* "Not recording", invoke no command and leave the controller as it was.  *)
(***************************************************************************)
C5_Route(paths, command) ==
    (Dispatches(1) /\ Asks(sockets'[1], paths)) =>
        LET sock == sockets'[1]
            cmds == CommandNames(sock.calls)
        IN  IF ctl.is_recording
            THEN /\ RepliesJson(sock, CreateSuccessResponse(EmptyObject))
                 /\ cmds = <<command>>
                 /\ \A i \in 1..Len(sock.calls) :
                       sock.calls[i].kind = "command" => sock.calls[i].confirm = "false"
            ELSE /\ RepliesJson(sock, CreateErrorResponse("Not recording"))
                 /\ cmds = <<>>
                 /\ ctl' = ctl

C5_SaveCancel ==
    [][C5_Route(SavePaths, "OnRecordSave") /\ C5_Route(CancelPaths, "OnRecordCancel")]_vars

\* a paused recording was cancelled
C5_Witness ==
    /\ Asks(sockets[1], CancelPaths)
    /\ RepliesJson(sockets[1], CreateSuccessResponse(EmptyObject))
    /\ \E i \in 1..Len(sockets[1].calls) :
          sockets[1].calls[i].name = "OnRecordCancel" /\ sockets[1].calls[i].paused

(***************************************************************************)
(* C6.  On every status route and in every controller state the response   *)
(* is a 200 success envelope whose data carries what the controller's      *)
(* queries return at dispatch time, the file size as its decimal numeral;  *)
(* and whatever throws, a status route never answers success:false.        *)
(***************************************************************************)
IsDigit(a) == \E d \in 1..10 : Digits[d] = a

DigitValue(a) == (CHOOSE d \in 1..10 : Digits[d] = a) - 1

\* the number a decimal numeral denotes
RECURSIVE DecimalValue(_)
DecimalValue(numeral) ==
    IF numeral = <<>> THEN 0
    ELSE 10 * DecimalValue(SubSeq(numeral, 1, Len(numeral) - 1))
            + DigitValue(numeral[Len(numeral)])

IsDecimalNumeral(numeral) ==
    /\ numeral # <<>>
    /\ \A i \in 1..Len(numeral) : IsDigit(numeral[i])
    /\ Len(numeral) > 1 => numeral[1] # "0"

IsJsonReply(sock) ==
    /\ Len(sock.written) = 1
    /\ sock.written[1].status = 200
    /\ sock.written[1].phrase = "OK"
    /\ sock.written[1].content_type = "application/json"

C6_Body ==
    /\ (Dispatches(1) /\ Asks(sockets'[1], StatusPaths)) =>
          /\ IsJsonReply(sockets'[1])
          /\ LET envelope == sockets'[1].written[1].content.json
             IN  /\ envelope.success = TRUE
                 /\ DOMAIN envelope.data =
                       {"is_recording", "is_paused", "file_name", "file_size", "total_time"}
                 /\ envelope.data.is_recording = ctl.is_recording
                 /\ envelope.data.is_paused = ctl.is_paused
                 /\ envelope.data.file_name = ctl.file_name
                 /\ IsDecimalNumeral(envelope.data.file_size)
                 /\ DecimalValue(envelope.data.file_size) = ctl.file_size
                 /\ envelope.data.total_time = ctl.total_time
          /\ ctl' = ctl
    /\ (Dispatches(1) /\ sockets'[1].form.kind = "request"
            /\ PathOf(sockets'[1].form.target) \in StatusPaths) =>
          \A i \in 1..Len(sockets'[1].written) :
              sockets'[1].written[i].content_type = "application/json" =>
                  sockets'[1].written[i].content.json.success = TRUE

C6_Status == [][C6_Body]_vars

\* the status of a paused recording of 1048576 bytes was reported through the
\* legacy route
C6_Witness ==
    /\ Asks(sockets[1], {<<"api", "/", "record", "/", "status">>})
    /\ IsJsonReply(sockets[1])
    /\ sockets[1].written[1].content.json.data.is_paused
    /\ sockets[1].written[1].content.json.data.file_size =
          <<"1", "0", "4", "8", "5", "7", "6">>

(***************************************************************************)
(* C7.  A well-formed request whose normalized path is not in the dispatch *)
(* set and does not start with api/ is answered 404 with the body          *)
(* "Not Found" and reaches no controller member; matching is exact, so a   *)
(* different letter case, a trailing slash, an appended query string and a *)
(* second leading slash are all answered 404.                              *)
(***************************************************************************)
NotFound == Response(404, "text/plain", "Not Found")

NearMisses ==
    { <<"Start">>, <<"STATUS">>, <<"start", "/">>, <<"status", "?", "x=1">>,
      <<"/", "start">>, <<"record", "/", "Start">>, <<"Api", "/", "status">> }

C7_NotFound ==
    \A s \in SocketIds :
        LET sock == sockets[s]
        IN  (/\ sock.parsed = 1
             /\ sock.form.kind = "request"
             /\ ~sock.faulted
             /\ \/ /\ PathOf(sock.form.target) \notin DispatchPaths
                   /\ ~StartsWith(PathOf(sock.form.target), <<"api", "/">>)
                \/ PathOf(sock.form.target) \in NearMisses)
            => /\ sock.written = <<NotFound>>
               /\ sock.written[1].phrase = "Not Found"
               /\ sock.calls = <<>>
               /\ ~sock.isOpen

\* a request for //start was answered 404
C7_Witness ==
    /\ sockets[1].parsed = 1
    /\ sockets[1].form.kind = "request"
    /\ sockets[1].form.target = <<"/", "/", "start">>
    /\ sockets[1].written = <<NotFound>>

(***************************************************************************)
(* C8.  A received buffer that holds CRLF CRLF and whose first line has    *)
(* fewer than three tokens between single spaces is answered 400 with the  *)
(* body "Bad Request", the connection is closed and no controller member   *)
(* is reached.                                                             *)
(***************************************************************************)
\* the bytes before the first CRLF
FirstLine(bytes) == Left(bytes, IndexOf(bytes, CRLF))

\* the number of tokens of a line between single spaces
TokenCount(line) == 1 + Cardinality({i \in 1..Len(line) : line[i] = SP})

BadRequest == Response(400, "text/plain", "Bad Request")

C8_BadRequest ==
    \A s \in SocketIds :
        LET sock == sockets[s]
        IN  (/\ sock.parsed = 1
             /\ ~sock.faulted
             /\ Contains(sock.request, CRLFCRLF)
             /\ TokenCount(FirstLine(sock.request)) < 3)
            => /\ sock.written = <<BadRequest>>
               /\ sock.written[1].phrase = "Bad Request"
               /\ ~sock.isOpen
               /\ sock.calls = <<>>

\* a request line without a version was answered 400
C8_Witness ==
    /\ sockets[1].request = <<"GET", SP, "/", "start">> \o CRLFCRLF
    /\ sockets[1].written = <<BadRequest>>
    /\ ~sockets[1].isOpen

(***************************************************************************)
(* C9.  A request for api/<suffix>, other than api/status and              *)
(* api/record/status: when the suffix is record/start, record/pause,       *)
(* record/cancel or record/save it is served exactly as a request for the  *)
(* suffix itself (same response, same controller invocations, same         *)
(* controller afterwards); for every other suffix, the empty one and the   *)
(* short aliases included, the response is 200 application/json with the   *)
(* error "Unknown API endpoint" and no controller member is reached.       *)
(***************************************************************************)
LegacyActions ==
    { <<"record", "/", "start">>, <<"record", "/", "pause">>,
      <<"record", "/", "cancel">>, <<"record", "/", "save">> }

SuffixOf(path) == SubSeq(path, 3, Len(path))

C9_Body ==
    (/\ Dispatches(1)
     /\ sockets'[1].form.kind = "request"
     /\ StartsWith(PathOf(sockets'[1].form.target), <<"api", "/">>)
     /\ PathOf(sockets'[1].form.target) \notin StatusPaths) =>
        LET sock == sockets'[1]
            suffix == SuffixOf(PathOf(sock.form.target))
        IN  IF suffix \in LegacyActions
            THEN ~sock.faulted =>
                   \E r \in {HandleRequest([isOpen |-> TRUE, written |-> <<>>],
                                           Get(<<"/">> \o suffix), ctl,
                                           sockets[1].h, sockets[1].w)} :
                      /\ sock.written = r.sk.written
                      /\ sock.calls = r.calls
                      /\ ctl' = r.ctl
                      /\ IsJsonReply(sock)
            ELSE /\ sockets[1].w = 0 =>
                      /\ RepliesJson(sock, CreateErrorResponse("Unknown API endpoint"))
                      /\ IsJsonReply(sock)
                 /\ \A i \in 1..Len(sock.written) : sock.written[i].status # 404
                 /\ sock.calls = <<>>
                 /\ ctl' = ctl

C9_LegacyRoute == [][C9_Body]_vars

\* the short alias api/start was answered "Unknown API endpoint"
C9_Witness ==
    /\ Asks(sockets[1], {<<"api", "/", "start">>})
    /\ RepliesJson(sockets[1], CreateErrorResponse("Unknown API endpoint"))

(***************************************************************************)
(* C10.  Dispatch does not depend on the method, the version or the header *)
(* lines: a well-formed request is answered with the same response (status *)
(* and body) and the same sequence of controller invocations as the        *)
(* request GET <target> HTTP/1.1 without headers for the same target, from *)
(* the same controller state.                                              *)
(***************************************************************************)
C10_Body ==
    (/\ Dispatches(1)
     /\ sockets'[1].form.kind = "request"
     /\ ~sockets'[1].faulted) =>
        LET sock == sockets'[1]
        IN  \E r \in {HandleRequest([isOpen |-> TRUE, written |-> <<>>],
                                    Wire(<<"GET">>, sock.form.target, HTTP11, <<>>,
                                         sock.form.body),
                                    ctl, sockets[1].h, sockets[1].w)} :
               /\ sock.written = r.sk.written
               /\ sock.calls = r.calls
               /\ ctl' = r.ctl

C10_MethodVersionHeadersIgnored == [][C10_Body]_vars

\* a POST with an unusual version and two header lines saved the recording
C10_Witness ==
    /\ Asks(sockets[1], SavePaths)
    /\ sockets[1].form.method = <<"POST">>
    /\ sockets[1].form.version = <<"X">>
    /\ Len(sockets[1].form.headers) = 2
    /\ RepliesJson(sockets[1], CreateSuccessResponse(EmptyObject))
    /\ CommandNames(sockets[1].calls) = <<"OnRecordSave">>

(***************************************************************************)
(* C11.  Once a response has been written to a connection, its socket is   *)
(* closed and its entry leaves the connection table before a response to   *)
(* any other connection is written: no response is written to B in a state *)
(* where A is answered and still has its entry.                            *)
(* Refuted: when close() leaves the disconnect pending, the entry stays    *)
(* until disconnected() is delivered, and B is served in between.          *)
(***************************************************************************)
Answered(s) == sockets[s].written # <<>>

C11_Body ==
    \A a, b \in SocketIds :
        (a # b /\ Answered(a) /\ a \in DOMAIN m_request_buffers)
            => sockets'[b].written = sockets[b].written

C11_ReleasedBeforeNextResponse == [][C11_Body]_vars

(***************************************************************************)
(* C12.  Stop() while listening closes the listener and every live         *)
(* connection: right after it the service is not listening, no socket is   *)
(* open and the connection table is empty.                                 *)
(* Refuted: Stop() closes the listener only; accepted connections stay     *)
(* open and keep their entries.                                            *)
(***************************************************************************)
C12_Body ==
    (listening /\ ~listening') =>
        /\ DOMAIN m_request_buffers' = {}
        /\ \A s \in SocketIds : ~sockets'[s].isOpen

C12_StopClosesConnections == [][C12_Body]_vars

(***************************************************************************)
(* C13.  A request is dispatched only while the service is listening:      *)
(* while it is stopped no connection is accepted, no request reaches the   *)
(* parser, no controller member is invoked and the controller does not     *)
(* change, also for connections accepted before Stop().                    *)
(* Refuted: a connection accepted before Stop() is still served after it.  *)
(***************************************************************************)
C13_Body ==
    ~listening =>
        /\ \A s \in SocketIds :
              /\ sockets[s].phase = "unused" => sockets'[s].phase = "unused"
              /\ sockets'[s].parsed = sockets[s].parsed
              /\ sockets'[s].calls = sockets[s].calls
        /\ ctl' = ctl

C13_DispatchOnlyWhileListening == [][C13_Body]_vars

(***************************************************************************)
(* C14.  Construction with a null controller fails, so a service that      *)
(* exists holds a non-null controller pointer, no controller member is     *)
(* ever invoked through a null pointer, and no response carries the error  *)
(* "No access to recording page".                                          *)
(***************************************************************************)
NoAccess == CreateErrorResponse("No access to recording page")

C14_ControllerNeverNull ==
    /\ alive => m_page_record # NULL
    /\ \A s \in SocketIds :
          /\ sockets[s].calls # <<>> => m_page_record # NULL
          /\ sockets[s].parsed > 0 => m_page_record # NULL
          /\ \A i \in 1..Len(sockets[s].written) :
                sockets[s].written[i].content_type = "application/json"
                    => sockets[s].written[i].content.json # NoAccess

\* a constructed service has started a recording for a client
C14_Witness ==
    /\ m_page_record = PageRecord
    /\ \E s \in SocketIds :
          /\ RepliesJson(sockets[s], Started)
          /\ CommandNames(sockets[s].calls) = <<"OnRecordStart">>

(***************************************************************************)
(* C15.  Start(port) returns true exactly when the listener is listening   *)
(* afterwards; when the bind fails from the stopped state it returns       *)
(* false, the service stays stopped, the connection table and the sockets  *)
(* are left as they were, and no connection is accepted while stopped.     *)
(* Refuted as stated: Start() on a service that listens already returns    *)
(* false and the service is listening afterwards.                          *)
(***************************************************************************)
BindFailureLeavesStopped(bound) ==
    (~listening /\ ~bound) =>
        /\ startReturned' = "false"
        /\ ~listening'
        /\ m_request_buffers' = m_request_buffers
        /\ sockets' = sockets

NoAcceptWhileStopped ==
    ~listening =>
        \A s \in SocketIds : sockets[s].phase = "unused" => sockets'[s].phase = "unused"

C15_Original_Body ==
    /\ \A bound \in BOOLEAN :
          Start(bound) =>
              /\ startReturned' = "true" <=> listening'
              /\ BindFailureLeavesStopped(bound)
    /\ NoAcceptWhileStopped

C15_Amended_Body ==
    /\ \A bound \in BOOLEAN :
          Start(bound) =>
              /\ ~listening => (startReturned' = "true" <=> listening')
              /\ listening => (startReturned' = "false" /\ listening')
              /\ BindFailureLeavesStopped(bound)
    /\ NoAcceptWhileStopped

InternalServerError == Response(500, "text/plain", "Internal Server Error")

C16_Body ==
    \A s \in SocketIds :
        (/\ sockets[s].parsed = 0
         /\ sockets'[s].parsed = 1
         /\ sockets'[s].faulted
         /\ sockets[s].w <= 1)
        => /\ alive'
           /\ sockets'[s].written = <<InternalServerError>>
           /\ sockets'[s].written[1].phrase = "Internal Server Error"
           /\ ~sockets'[s].isOpen
           /\ listening' = listening

IsErrorResponse(response) ==
    \/ response.status \in {400, 404, 500}
    \/ /\ response.content_type = "application/json"
       /\ response.content.json.success = FALSE

AnsweredWithError(a) ==
    /\ sockets[a].written = <<>>
    /\ Len(sockets'[a].written) = 1
    /\ IsErrorResponse(sockets'[a].written[1])

C17_Body ==
    \A a \in SocketIds :
        AnsweredWithError(a) =>
            /\ alive'
            /\ listening' = listening
            /\ \A b \in SocketIds \ {a} :
                  /\ sockets'[b] = sockets[b]
                  /\ b \in DOMAIN m_request_buffers' <=> b \in DOMAIN m_request_buffers
                  /\ b \in DOMAIN m_request_buffers =>
                        m_request_buffers'[b] = m_request_buffers[b]

C17_ErrorsContained == [][C17_Body]_vars

\* one connection was answered 404 while another, with part of a request in its
\* buffer, is still open and in the table
C17_Witness ==
    \E a, b \in SocketIds :
        /\ a # b
        /\ sockets[a].written = <<NotFound>>
        /\ sockets[b].isOpen
        /\ b \in DOMAIN m_request_buffers
        /\ m_request_buffers[b] # <<>>

(***************************************************************************)
(* C18.  For every header line K: V of a request, looking up lower(K) in   *)
(* the parsed header map yields trim(V), also with repeated names, names   *)
(* in different letter case, whitespace around names and colons in values. *)
(* Refuted: of two lines with the same name only the last value is kept.   *)
(***************************************************************************)
HasName(line) == IndexOf(line, <<":">>) > 0

NameOf(line) == Trimmed(Left(line, IndexOf(line, <<":">>)))

ValueOf(line) == Trimmed(Mid(line, IndexOf(line, <<":">>) + 1))

SameName(line, other) == ToLower(NameOf(line)) = ToLower(NameOf(other))

Arriving(sock, k) == Concat(SubSeq(sock.inflight, 1, k))

\* a connection whose request has not been parsed yet
Waiting(sock, table, s) ==
    (sock.phase = "connected" /\ sock.parsed = 0) =>
        /\ sock.written = <<>>
        /\ sock.isOpen
        /\ s \in DOMAIN table
        /\ ~Contains(table[s], CRLFCRLF)

C19_Body ==
    \A s \in SocketIds :
        /\ Waiting(sockets[s], m_request_buffers, s)
        /\ Waiting(sockets'[s], m_request_buffers', s)
        \* a readable event that does not complete the request: its bytes are
        \* appended to the buffer
        /\ (/\ sockets[s].phase = "connected"
            /\ sockets'[s].phase = "connected"
            /\ sockets'[s].parsed = 0
            /\ Len(sockets'[s].inflight) < Len(sockets[s].inflight))
           => m_request_buffers'[s] =
                 m_request_buffers[s]
                    \o Arriving(sockets[s],
                                Len(sockets[s].inflight) - Len(sockets'[s].inflight))
        \* the request is parsed in the readable event that completes the
        \* terminator, on everything accumulated
        /\ (sockets[s].parsed = 0 /\ sockets'[s].parsed = 1)
           => /\ Contains(sockets'[s].request, CRLFCRLF)
              /\ \E k \in 1..Len(sockets[s].inflight) :
                    sockets'[s].request = m_request_buffers[s] \o Arriving(sockets[s], k)
        \* the entry of a waiting connection goes only with its disconnect
        /\ (/\ sockets[s].parsed = 0
            /\ s \in DOMAIN m_request_buffers
            /\ s \notin DOMAIN m_request_buffers')
           => sockets'[s].phase = "disconnected"

C19_ParsedAtFirstTerminator == [][C19_Body]_vars

\* a connection holds a request whose terminator has arrived in part only
C19_Witness ==
    \E s \in SocketIds :
        /\ sockets[s].phase = "connected"
        /\ sockets[s].isOpen
        /\ sockets[s].written = <<>>
        /\ s \in DOMAIN m_request_buffers
        /\ m_request_buffers[s] =
              <<"POST", SP, "/", "start", SP>> \o HTTP11 \o <<CR, LF, CR>>
        /\ sockets[s].inflight = <<<<LF>>>>

(***************************************************************************)
(* C20.  At most one request is served per connection.  The buffer only    *)
(* grows until the first complete request is detected; once the dispatch   *)
(* has returned the buffer is empty for as long as the entry exists; and   *)
(* the bytes of further requests, in the same read as the first terminator *)
(* or in a later one, cause no second dispatch, no second response and no  *)
(* further controller invocation on the connection.  The emptiness of the  *)
(* buffer is stated for dispatches from which HandleRequest returns, not   *)
(* for those it leaves by an exception.                                    *)
(***************************************************************************)
IsPrefix(p, q) == Len(p) <= Len(q) /\ SubSeq(q, 1, Len(p)) = p

C20_Body ==
    \A s \in SocketIds :
        /\ sockets'[s].parsed <= 1
        /\ Len(sockets'[s].written) <= 1
        /\ Len(CommandNames(sockets'[s].calls)) <= 1
        \* before the dispatch the buffer only grows
        /\ (/\ sockets'[s].parsed = 0
            /\ s \in DOMAIN m_request_buffers
            /\ s \in DOMAIN m_request_buffers')
           => IsPrefix(m_request_buffers[s], m_request_buffers'[s])
        \* after the dispatch it is empty
        /\ (/\ sockets'[s].parsed = 1
            /\ ~sockets'[s].escaped
            /\ s \in DOMAIN m_request_buffers')
           => m_request_buffers'[s] = <<>>
        \* and nothing more happens on the connection
        /\ sockets[s].parsed = 1
           => /\ sockets'[s].parsed = 1
              /\ sockets'[s].written = sockets[s].written
              /\ sockets'[s].calls = sockets[s].calls
              /\ sockets'[s].request = sockets[s].request
              /\ ctl' = ctl \/ \E t \in SocketIds \ {s} : sockets'[t].parsed # sockets[t].parsed

C20_OneRequestPerConnection == [][C20_Body]_vars

\* two requests arrived in one read and a third in a later read: one dispatch,
\* one response, one command, and an empty buffer in the entry that is left
C20_Witness ==
    \E s \in SocketIds :
        /\ sockets[s].request = Get(<<"/", "pause">>) \o Get(<<"/", "save">>)
        /\ sockets[s].parsed = 1
        /\ sockets[s].inflight = <<>>
        /\ sockets[s].phase = "connected"
        /\ Len(sockets[s].written) = 1
        /\ CommandNames(sockets[s].calls) = <<"OnRecordPause">>
        /\ s \in DOMAIN m_request_buffers
        /\ m_request_buffers[s] = <<>>

(***************************************************************************)
(* C21  Every accepted connection is eventually released.  When the event  *)
(* loop delivers the disconnect events that are pending, a connection to   *)
(* which a response was written ends with no entry in the connection table *)
(* and its socket scheduled for deletion, as long as the service lives;    *)
(* the disconnect callback leaves the connection released; an entry leaves *)
(* the table only in the disconnect callback of its own socket, and a      *)
(* released connection never has an entry again.                           *)
(***************************************************************************)
Released(s) == s \notin DOMAIN m_request_buffers /\ sockets[s].phase = "disconnected"

C21_Body ==
    \A s \in SocketIds :
        /\ OnDisconnected(s) => Released(s)'
        /\ (s \in DOMAIN m_request_buffers /\ s \notin DOMAIN m_request_buffers')
               => /\ sockets[s].phase = "connected"
                  /\ sockets'[s].phase = "disconnected"
                  /\ \A t \in SocketIds \ {s} :
                        t \in DOMAIN m_request_buffers => t \in DOMAIN m_request_buffers'
        /\ Released(s) => Released(s)'

C21_EventuallyReleased ==
    /\ [][C21_Body]_vars
    /\ \A s \in SocketIds : Answered(s) ~> (Released(s) \/ ~alive)

\* one answered connection is released, another is answered and still waits
\* for its disconnect event
C21_Witness ==
    \E s, t \in SocketIds :
        /\ Answered(s) /\ Released(s)
        /\ Answered(t) /\ sockets[t].discPending /\ t \in DOMAIN m_request_buffers
        /\ alive

(***************************************************************************)
(* C22  Alias routes are equivalent.  A request for one path of an action  *)
(* (start, pause, save, cancel, status: the short path, the record/ path,  *)
(* the api/record/ path, and api/status for status) is served exactly as   *)
(* the same request for every other path of that action from the same      *)
(* controller state: same responses written, same controller invocations,  *)
(* same controller afterwards.                                             *)
(***************************************************************************)
AliasGroups == {StartPaths, PausePaths, SavePaths, CancelPaths, StatusPaths}

C22_Body ==
    (/\ Dispatches(1)
     /\ sockets'[1].form.kind = "request") =>
        LET sock == sockets'[1]
            form == sock.form
        IN  \A group \in AliasGroups :
              PathOf(form.target) \in group =>
                \A alias \in group :
                  \E r \in {HandleRequest([isOpen |-> TRUE, written |-> <<>>],
                                          Wire(form.method, <<"/">> \o alias, form.version,
                                               form.headers, form.body),
                                          ctl, sockets[1].h, sockets[1].w)} :
                     /\ sock.escaped = r.escaped
                     /\ ~r.escaped => sock.written = r.sk.written
                     /\ sock.calls = r.calls
                     /\ ctl' = r.ctl

C22_AliasRoutesEquivalent == [][C22_Body]_vars

\* the api/record/ path paused a running recording
C22_Witness ==
    /\ Asks(sockets[1], {<<"api", "/", "record", "/", "pause">>})
    /\ CommandNames(sockets[1].calls) = <<"OnRecordPause">>
    /\ RepliesJson(sockets[1], CreateSuccessResponse(EmptyObject))
    /\ ctl.is_paused

(***************************************************************************)
(* C23  On the api/<suffix> route the body does not influence the outcome. *)
(* A request for a path under api/ is served exactly as the same request   *)
(* without a body, from the same controller state: same responses, same    *)
(* controller invocations, same controller afterwards; and when nothing    *)
(* throws the one response is a 200, whatever the body, so a body that     *)
(* cannot be parsed produces neither a 400 nor a 500.                      *)
(***************************************************************************)
C23_Body ==
    (/\ Dispatches(1)
     /\ sockets'[1].form.kind = "request"
     /\ StartsWith(PathOf(sockets'[1].form.target), <<"api", "/">>)) =>
        LET sock == sockets'[1]
            form == sock.form
        IN  /\ \E r \in {HandleRequest([isOpen |-> TRUE, written |-> <<>>],
                                        Wire(form.method, form.target, form.version,
                                             form.headers, <<>>),
                                        ctl, sockets[1].h, sockets[1].w)} :
                   /\ sock.escaped = r.escaped
                   /\ ~r.escaped => sock.written = r.sk.written
                   /\ sock.calls = r.calls
                   /\ ctl' = r.ctl
            /\ ~sock.faulted =>
                   /\ Len(sock.written) = 1
                   /\ sock.written[1].status = 200
                   /\ IsJsonReply(sock)

C23_BodyIgnored == [][C23_Body]_vars

\* api/record/start with a body that is not JSON started the recording
C23_Witness ==
    /\ Asks(sockets[1], {<<"api", "/", "record", "/", "start">>})
    /\ sockets[1].form.body = <<"junk">>
    /\ RepliesJson(sockets[1], Started)
    /\ CommandNames(sockets[1].calls) = <<"OnRecordStart">>

(***************************************************************************)
(* C24  The controller changes only through the four action routes.  A     *)
(* request that is not for a start, pause, save or cancel path (the index  *)
(* page, a status path, a path that matches nothing, an unknown api/       *)
(* suffix) or whose request line is malformed invokes no controller        *)
(* command and leaves the controller as it was; the index page invokes no  *)
(* controller member at all; accepting a connection and the disconnect     *)
(* callback invoke no controller member and leave the controller as it was.*)
(***************************************************************************)
ActionPaths == StartPaths \cup PausePaths \cup SavePaths \cup CancelPaths

IndexPaths == { <<>>, <<"index.html">>, <<"index">> }

Accepts(s) == sockets[s].phase = "unused" /\ sockets'[s].phase = "connected"

C24_Body ==
    /\ \A s \in SocketIds :
          (Accepts(s) \/ OnDisconnected(s)) =>
              /\ ctl' = ctl
              /\ \A t \in SocketIds : sockets'[t].calls = sockets[t].calls
    /\ (/\ Dispatches(1)
        /\ \/ /\ sockets'[1].form.kind = "request"
              /\ PathOf(sockets'[1].form.target) \notin ActionPaths
           \/ /\ sockets'[1].form.kind = "raw"
              /\ sockets'[1].request \in MalformedRequests) =>
            /\ CommandNames(sockets'[1].calls) = <<>>
            /\ ctl' = ctl
            /\ (/\ sockets'[1].form.kind = "request"
                /\ PathOf(sockets'[1].form.target) \in IndexPaths)
                   => sockets'[1].calls = <<>>

C24_OnlyActionRoutesChangeController == [][C24_Body]_vars

\* a status request on a paused recording was served with queries only, the
\* connection was released, and the recording is still paused
C24_Witness ==
    /\ Asks(sockets[1], StatusPaths)
    /\ sockets[1].phase = "disconnected"
    /\ Len(sockets[1].calls) = 5
    /\ CommandNames(sockets[1].calls) = <<>>
    /\ ctl.is_recording /\ ctl.is_paused

(***************************************************************************)
(* C25  The host's backend start-up.  The service exists only after the    *)
(* recorder controller was obtained non-null and, when an automatic start  *)
(* of the recording was requested, only after that start succeeded; a      *)
(* failed automatic start ends main with code 1 and the service is never   *)
(* constructed and never listens.  When Start(port) returns false main     *)
(* does not exit: its only next step is into the event loop, and there the *)
(* service exists without a listener.                                      *)
(***************************************************************************)
C25_Inv ==
    /\ alive =>
          /\ host.backend
          /\ host.pagerecord = PageRecord
          /\ m_page_record = PageRecord
          /\ host.start_recording => host.started = "true"
    /\ listening => alive
    /\ (host.started \in {"false", "throws"} \/ host.pagerecord = NULL) =>
          /\ host.pc = "exit"
          /\ host.exit_code = "1"
          /\ ~alive
          /\ ~listening
    /\ startReturned = "false" =>
          /\ host.pc \in {"start", "exec"}
          /\ host.exit_code = "none"
          /\ alive
          /\ ~listening

C25_Step ==
    /\ (host.pc = "start" /\ startReturned = "false" /\ host' # host) =>
          /\ host'.pc = "exec"
          /\ host'.exit_code = "none"
    /\ host.pc = "exec" => (host' = host /\ listening' = listening)

C25_BackendStartup == []C25_Inv /\ [][C25_Step]_vars

\* the recording was started automatically, Start(port) returned false, and
\* main is in its event loop with a service that does not listen
C25_Witness ==
    /\ host.pc = "exec"
    /\ host.start_recording
    /\ host.started = "true"
    /\ host.backend
    /\ startReturned = "false"
    /\ alive
    /\ ~listening
    /\ ctl.is_recording

====
